---- MODULE Spec2Model ----
(***************************************************************************)
(* LabStatus.py: a watchdog observer thread delivers file events to        *)
(* LabHandler, a command thread (get_input) sets the two notify counters   *)
(* under q_lock / v_lock, and the main thread rotates the month watches.   *)
(***************************************************************************)
EXTENDS Integers, Sequences, FiniteSets, TLC

VARIABLES
    login,          \* os.getlogin(): fixed for the life of the process
    recent_events,  \* LabHandler.recent_events, deque(maxlen=30)
    q_cnt,          \* LabHandler._q_cnt
    v_cnt,          \* LabHandler._v_cnt
    q_lock,         \* holder of q_lock: "free", "observer" or "input"
    v_lock,         \* holder of v_lock
    obs_pc,         \* position of the observer thread inside the handler
    event,          \* the event the observer thread is handling / handled last
    x_cnt,          \* notif's argument _x_cnt, read by the caller
    stat,           \* outcome of os.stat for the event being handled
    obs_out,        \* lines printed by the handler for the current event
    inp_pc,         \* position of the get_input thread
    inp,            \* the line returned by input('')
    count,          \* get_input's local count
    inp_out,        \* lines printed by get_input for the current line
    run,            \* history: per source, what happened since the last command
    recorded,       \* history: the last maxlen + 1 paths notif recorded, oldest first
    ledger_locks,   \* history: the locks the observer held at every ledger append so far
    rejected,       \* history: the path the size check refused last, until it is recorded
    files,          \* history: number of run files the instruments produced
    cmds,           \* history: number of lines read by get_input
    main_pc,        \* position of the main thread
    today,          \* the calendar month (months since January of year 0, plus 1)
    current_month_year, \* the month the main loop saw last
    dirs,           \* the month directories that exist on the share
    viia7,          \* path of the current month's directory
    viia7last,      \* path of last month's directory, found at startup
    observer,       \* the observer thread: new, started or stopped
    main_out,       \* lines printed by the main thread
    viia7watch_last,    \* the watch on last month's directory
    viia7watch_curr,    \* the watch on the current month's directory
    watches,        \* the watches the observer holds
    watch_log,      \* history: every schedule that made a watch and every unschedule
    ticks           \* history: number of month changes since the start

vars == <<login, recent_events, q_cnt, v_cnt, q_lock, v_lock, obs_pc, event,
          x_cnt, stat, obs_out, inp_pc, inp, count, inp_out, run, recorded,
          ledger_locks, rejected, files, cmds, main_pc, today, current_month_year,
          dirs, viia7, viia7last, observer, main_out, viia7watch_last,
          viia7watch_curr, watches, watch_log, ticks>>

-----------------------------------------------------------------------------
(* Program constants *)

maxlen == 30
ALWAYS == 1337
MinSize == 1300000

(* Bounds of the model *)

MaxFiles == 3        \* Spec: run files the instruments produce
MaxCmds == 2         \* Spec: lines typed by the user
MaxMonths == 2       \* SpecRotation: month changes
CountFiles == 18     \* SpecCountdown: run files, alternating between the sources
CountCmds == 1       \* SpecCountdown: lines typed by the user
FrameFiles == 2      \* SpecFrame: run files
FrameCmds == 1       \* SpecFrame: lines typed by the user
FrameMonths == 1     \* SpecFrame: month changes
ShutFiles == 1       \* SpecShutdown: run files of the Qiaxcel
ShutCmds == 1        \* SpecShutdown: lines typed by the user
ShutMonths == 1      \* SpecShutdown: month changes
LedgerFiles == 33    \* SpecLedger: run files
AlwaysFiles == 1330  \* SpecAlways: run files of the Qiaxcel

-----------------------------------------------------------------------------
(* Strings are sequences of one-character strings. *)

Range(s) == {s[i] : i \in DOMAIN s}

\* str.lower() on the characters the model uses
LowerChar(c) ==
    CASE c = "J" -> "j"
      [] c = "O" -> "o"
      [] c = "Q" -> "q"
      [] c = "V" -> "v"
      [] OTHER -> c

Lower(s) == [i \in DOMAIN s |-> LowerChar(s[i])]

\* Python's `sub in s` on strings
Contains(sub, s) ==
    \E i \in 0..(Len(s) - Len(sub)) : SubSeq(s, i + 1, i + Len(sub)) = sub

EDS == <<".", "e", "d", "s">>
XDRX == <<".", "x", "d", "r", "x">>
TXT == <<".", "t", "x", "t">>

\* <user directory>\<run name><extension>
FilePath(user, name, ext) == user \o <<"\\", name>> \o ext

-----------------------------------------------------------------------------
(* LabHandler: pure parts *)

viia7_str == "Viia7"
qiaxcel_str == "Qiaxcel"

\* mutant: a full deque drops the new entry instead of the oldest
deque_append_keep_old(d, x) ==
    IF Len(d) >= maxlen THEN d ELSE Append(d, x)

\* deque.append on a deque with maxlen: the oldest entry falls out when full
deque_append(d, x) ==
    IF Len(d) >= maxlen THEN SubSeq(d, Len(d) - maxlen + 2, Len(d)) \o <<x>>
    ELSE Append(d, x)

\* the last position of character c in s, 0 when absent
LastIndex(s, c) ==
    IF \E i \in DOMAIN s : s[i] = c
    THEN CHOOSE i \in DOMAIN s : s[i] = c /\ \A j \in DOMAIN s : s[j] = c => j <= i
    ELSE 0

\* str(os.path.splitext(path)[0].split('\\')[-1])
file_name(path) ==
    LET base == SubSeq(path, LastIndex(path, "\\") + 1, Len(path))
        dot == LastIndex(base, ".")
    IN  IF dot > 1 THEN SubSeq(base, 1, dot - 1) ELSE base

get_event_info(ev) ==
    [machine |-> IF ev.event_type = "modified" THEN viia7_str ELSE qiaxcel_str,
     file |-> file_name(ev.src_path)]

\* mutant: the countdown fires one run late
is_distinguished_late(ev, _x_cnt) ==
    Contains(login, Lower(ev.src_path)) \/ _x_cnt = 0 \/ _x_cnt > 9

\* the condition of notif's `if`: a distinguished notification
is_distinguished(ev, _x_cnt) ==
    Contains(login, Lower(ev.src_path)) \/ _x_cnt = 1 \/ _x_cnt > 9

\* mutant: the counter is not taken below 0
notif_floor(ev, _x_cnt) ==
    [lines |-> <<[machine |-> get_event_info(ev).machine, file |-> get_event_info(ev).file,
                  text |-> IF is_distinguished(ev, _x_cnt)
                           THEN ">>> has finished!" ELSE " -  has finished."]>>
               \o (IF _x_cnt = 1
                   THEN <<[machine |-> get_event_info(ev).machine, file |-> <<>>,
                           text |-> "No longer notifying."]>>
                   ELSE <<>>),
     flash |-> is_distinguished(ev, _x_cnt),
     ret |-> IF _x_cnt > 0 THEN _x_cnt - 1 ELSE 0]

\* what notif prints and returns (the ledger append is in the actions)
notif(ev, _x_cnt) ==
    LET info == get_event_info(ev)
        message == [machine |-> info.machine, file |-> info.file,
                    text |-> IF is_distinguished(ev, _x_cnt)
                             THEN ">>> has finished!" ELSE " -  has finished."]
        off == [machine |-> info.machine, file |-> <<>>, text |-> "No longer notifying."]
    IN  [lines |-> IF _x_cnt = 1 THEN <<message, off>> ELSE <<message>>,
         flash |-> is_distinguished(ev, _x_cnt),
         ret |-> _x_cnt - 1]

notify_setting(machine, _x_cnt) ==
    IF 0 < _x_cnt /\ _x_cnt < 10
    THEN [machine |-> machine, text |-> "Notifying in n runs time", n |-> _x_cnt]
    ELSE IF _x_cnt > 9
         THEN [machine |-> machine, text |-> "Notifying for all runs", n |-> 0]
         ELSE [machine |-> machine, text |-> "Notify OFF", n |-> 0]

\* q_cnt.setter: the new value of _q_cnt
q_cnt_setter(cur, x) ==
    IF x = 0 THEN (IF cur > 0 THEN 0 ELSE ALWAYS) ELSE x

\* mutant: a negative counter counts as on
v_cnt_setter_nonzero(cur, x) ==
    IF x = 0 THEN (IF cur # 0 THEN 0 ELSE ALWAYS) ELSE x

\* v_cnt.setter: the new value of _v_cnt
v_cnt_setter(cur, x) ==
    IF x = 0 THEN (IF cur > 0 THEN 0 ELSE ALWAYS) ELSE x

\* os.stat(path): the file is there with some size, or the call raises OSError
StatResults ==
    {[ok |-> FALSE, st_size |-> 0]} \cup
    {[ok |-> TRUE, st_size |-> n] : n \in {MinSize, MinSize + 1}}

\* mutant: a file of exactly the threshold size passes
is_large_enough_ge(st) ==
    IF st.ok THEN st.st_size >= MinSize ELSE TRUE

\* is_large_enough's return value for a stat outcome
is_large_enough(st) ==
    IF st.ok THEN st.st_size > MinSize ELSE TRUE

\* the two lines is_large_enough prints when os.stat raises
stat_warning(path) ==
    <<[machine |-> viia7_str, file |-> <<>>, text |-> "OSError"],
      [machine |-> viia7_str, file |-> file_name(path), text |-> "wasn't saved properly!"]>>

\* mutant: the with statement does not wait for the lock
acquire_unguarded(lock) == TRUE

\* Lock.acquire: `with lock` enters only when nobody holds the lock
acquire(lock) == lock = "free"

-----------------------------------------------------------------------------
(* get_input: pure parts *)

Digits == {"0", "1", "2", "3", "4", "5", "6", "7", "8", "9"}

\* int(char) for a digit character
int(c) == CHOOSE n \in 0..9 : ToString(n) = c

\* mutant: the loop has no break, so the last digit wins
first_digit_last(line) ==
    IF \E i \in DOMAIN line : line[i] \in Digits
    THEN int(line[CHOOSE i \in DOMAIN line :
                    line[i] \in Digits /\ \A j \in (i + 1)..Len(line) : line[j] \notin Digits])
    ELSE 0

\* the for/else of get_input: the first digit of the line, 0 when it has none
first_digit(line) ==
    IF \E i \in DOMAIN line : line[i] \in Digits
    THEN int(line[CHOOSE i \in DOMAIN line :
                    line[i] \in Digits /\ \A j \in 1..(i - 1) : line[j] \notin Digits])
    ELSE 0

HELP == <<"h", "e", "l", "p">>

help_text == <<[machine |-> "", text |-> "Monitors Qiaxcel and Viia7", n |-> 0],
               [machine |-> "", text |-> "Commands - q, v and a digit", n |-> 0]>>

-----------------------------------------------------------------------------
(* Month directories.  A month is counted from January of year 0; a
   directory path is the pair build_path puts into it. *)

Abbr == <<"Jan", "Feb", "Mar", "Apr", "May", "Jun",
          "Jul", "Aug", "Sep", "Oct", "Nov", "Dec">>
Full == <<"January", "February", "March", "April", "May", "June",
          "July", "August", "September", "October", "November", "December">>

MonthOf(m) == ((m - 1) % 12) + 1
YearOf(m) == (m - 1) \div 12

build_path(month, year) == [year |-> year, month |-> month]

qiaxcel == [year |-> 0, month |-> "QIAxcel"]

\* mutant: makedirs stays True when last month is asked for
viia7_path_makedirs(last, m, d) ==
    LET date == IF last THEN m - 1 ELSE m
        path == build_path(Abbr[MonthOf(date)], YearOf(date))
        path2 == build_path(Full[MonthOf(date)], YearOf(date))
        sept == build_path("Sept", YearOf(date))
    IN  IF path \in d THEN [ok |-> TRUE, path |-> path, dirs |-> d]
        ELSE IF path2 \in d THEN [ok |-> TRUE, path |-> path2, dirs |-> d]
        ELSE IF MonthOf(date) = 9 /\ sept \in d THEN [ok |-> TRUE, path |-> sept, dirs |-> d]
        ELSE [ok |-> TRUE, path |-> path, dirs |-> d \cup {path}]

\* lines 189-191: the instrument a watched directory belongs to: the fixed
\* QIAxcel directory, or one of the Viia7's month directories
watch_machine(path) == IF path = qiaxcel THEN qiaxcel_str ELSE viia7_str

\* viia7_path(last) called in month m with the directories d on the share:
\* the path returned, the directories afterwards, and whether it returned
viia7_path(last, m, d) ==
    LET date == IF last THEN m - 1 ELSE m
        month == Abbr[MonthOf(date)]
        year == YearOf(date)
        path == build_path(month, year)
        path2 == build_path(Full[MonthOf(date)], year)
        sept == build_path("Sept", year)
    IN  IF path \in d THEN [ok |-> TRUE, path |-> path, dirs |-> d]
        ELSE IF path2 \in d THEN [ok |-> TRUE, path |-> path2, dirs |-> d]
        ELSE IF month = "Sep" /\ sept \in d THEN [ok |-> TRUE, path |-> sept, dirs |-> d]
        ELSE IF ~last THEN [ok |-> TRUE, path |-> path, dirs |-> d \cup {path}]
        ELSE [ok |-> FALSE, path |-> path, dirs |-> d]

\* the month a directory path names
MonthsNamed(path) ==
    {m \in 1..(today + 1) :
        /\ YearOf(m) = path.year
        /\ path.month \in {Abbr[MonthOf(m)], Full[MonthOf(m)]}
                          \cup (IF MonthOf(m) = 9 THEN {"Sept"} ELSE {})}

-----------------------------------------------------------------------------
(* History kept for the properties: per source, the counter value the last
   command left, and the renders since then. *)

NoRun(prev, start) ==
    [prev |-> prev, start |-> start, len |-> 0, normal |-> 0, nologin |-> TRUE]

\* the login name occurs in the path, compared case-insensitively
LoginInPath(path) == Contains(Lower(login), Lower(path))

\* a notification line of the distinguished / of the normal form
IsDistinguishedLine(l) == l.text = ">>> has finished!"
IsNormalLine(l) == l.text = " -  has finished."

\* the history after notif printed `lines` for event ev
Rendered(r, ev, lines) ==
    [prev |-> r.prev,
     start |-> r.start,
     len |-> r.len + 1,
     normal |-> r.normal + (IF IsNormalLine(lines[1]) THEN 1 ELSE 0),
     nologin |-> r.nologin /\ ~LoginInPath(ev.src_path)]

\* the locks of lines 185-186 that thread t holds
HeldBy(t) ==
    (IF q_lock = t THEN {"q_lock"} ELSE {}) \cup (IF v_lock = t THEN {"v_lock"} ELSE {})

\* the window of the last maxlen + 1 recorded paths
Record(w, path) ==
    IF Len(w) > maxlen THEN Tail(w) \o <<path>> ELSE Append(w, path)

-----------------------------------------------------------------------------
(* The observer thread: watchdog takes one event at a time from its queue
   and calls the handler's on_modified / on_created (every other event type
   reaches the base class's empty method). *)

main_vars == <<main_pc, today, current_month_year, dirs, viia7, viia7last, observer,
               main_out, viia7watch_last, viia7watch_curr, watches, watch_log, ticks>>
handler_vars == <<recent_events, q_cnt, v_cnt, q_lock, v_lock, obs_pc, event, x_cnt,
                  stat, obs_out, run, recorded, ledger_locks, rejected, files>>
obs_frame == <<login, inp_pc, inp, count, inp_out, cmds, main_vars>>
inp_frame == <<login, recent_events, obs_pc, event, x_cnt, stat, obs_out, recorded,
               ledger_locks, rejected, files, main_vars>>

NoEvent == [event_type |-> "none", src_path |-> <<>>]
NoStat == [ok |-> TRUE, st_size |-> 0]

Dispatch(ev, produced) ==
    /\ observer = "started"
    /\ obs_pc = "idle"
    /\ files' = produced
    /\ CASE ev.event_type = "modified" -> event' = ev /\ obs_pc' = "on_modified"
         [] ev.event_type = "created" -> event' = ev /\ obs_pc' = "on_created"
         [] OTHER -> UNCHANGED <<event, obs_pc>>
    /\ UNCHANGED <<recent_events, q_cnt, v_cnt, q_lock, v_lock, x_cnt, stat, obs_out, run,
                   recorded, ledger_locks, rejected>>
    /\ UNCHANGED obs_frame

\* the handler returns to watchdog's dispatch loop: its locals are gone
Return ==
    /\ obs_pc' = "idle"
    /\ event' = NoEvent
    /\ x_cnt' = 0
    /\ stat' = NoStat
    /\ obs_out' = <<>>

\* mutant: on_modified does not look at the extension
on_modified_any_ext ==
    /\ obs_pc = "on_modified"
    /\ IF event.src_path \notin Range(recent_events)
       THEN obs_pc' = "is_large_enough" /\ UNCHANGED <<event, x_cnt, stat, obs_out>>
       ELSE Return
    /\ UNCHANGED <<recent_events, q_cnt, v_cnt, q_lock, v_lock, run, recorded,
                   ledger_locks, rejected, files>>
    /\ UNCHANGED obs_frame

\* on_modified, line 36: the sleep, then the extension and ledger test
on_modified ==
    /\ obs_pc = "on_modified"
    /\ IF Contains(EDS, event.src_path) /\ event.src_path \notin Range(recent_events)
       THEN obs_pc' = "is_large_enough" /\ UNCHANGED <<event, x_cnt, stat, obs_out>>
       ELSE Return
    /\ UNCHANGED <<recent_events, q_cnt, v_cnt, q_lock, v_lock, run, recorded,
                   ledger_locks, rejected, files>>
    /\ UNCHANGED obs_frame

\* on_modified, line 37: is_large_enough(event.src_path)
on_modified_size(results) ==
    /\ obs_pc = "is_large_enough"
    /\ \E st \in results :
        /\ stat' = st
        /\ obs_out' = IF st.ok THEN obs_out ELSE obs_out \o stat_warning(event.src_path)
    /\ obs_pc' = "if_large_enough"
    /\ UNCHANGED <<recent_events, q_cnt, v_cnt, q_lock, v_lock, event, x_cnt, run,
                   recorded, ledger_locks, rejected, files>>
    /\ UNCHANGED obs_frame

\* mutant: a file that is too small is put in the ledger all the same
on_modified_if_large_recorded ==
    /\ obs_pc = "if_large_enough"
    /\ IF is_large_enough(stat)
       THEN /\ obs_pc' = "v_lock"
            /\ UNCHANGED <<event, x_cnt, stat, obs_out, rejected, recent_events>>
       ELSE /\ Return
            /\ rejected' = event.src_path
            /\ recent_events' = deque_append(recent_events, event.src_path)
    /\ UNCHANGED <<q_cnt, v_cnt, q_lock, v_lock, run, recorded, ledger_locks, files>>
    /\ UNCHANGED obs_frame

\* on_modified, line 37: the `if` on what is_large_enough returned
on_modified_if_large ==
    /\ obs_pc = "if_large_enough"
    /\ IF is_large_enough(stat)
       THEN obs_pc' = "v_lock" /\ UNCHANGED <<event, x_cnt, stat, obs_out, rejected>>
       ELSE Return /\ rejected' = event.src_path
    /\ UNCHANGED <<recent_events, q_cnt, v_cnt, q_lock, v_lock, run, recorded,
                   ledger_locks, files>>
    /\ UNCHANGED obs_frame

\* mutant: on_modified takes the Qiaxcel's lock
on_modified_lock_q ==
    /\ obs_pc = "v_lock"
    /\ acquire(q_lock)
    /\ q_lock' = "observer"
    /\ obs_pc' = "v_notif"
    /\ UNCHANGED <<recent_events, q_cnt, v_cnt, v_lock, event, x_cnt, stat,
                   obs_out, run, recorded, ledger_locks, rejected, files>>
    /\ UNCHANGED obs_frame

\* on_modified, line 38: with v_lock
on_modified_lock ==
    /\ obs_pc = "v_lock"
    /\ acquire(v_lock)
    /\ v_lock' = "observer"
    /\ obs_pc' = "v_notif"
    /\ UNCHANGED <<recent_events, q_cnt, v_cnt, q_lock, event, x_cnt, stat,
                   obs_out, run, recorded, ledger_locks, rejected, files>>
    /\ UNCHANGED obs_frame

\* on_modified, line 39, right-hand side: self.notif(event, self._v_cnt)
on_modified_notif ==
    /\ obs_pc = "v_notif"
    /\ x_cnt' = v_cnt
    /\ recent_events' = deque_append(recent_events, event.src_path)
    /\ obs_out' = obs_out \o notif(event, v_cnt).lines
    /\ run' = [run EXCEPT !.v = Rendered(@, event, notif(event, v_cnt).lines)]
    /\ recorded' = Record(recorded, event.src_path)
    /\ ledger_locks' = ledger_locks \cap HeldBy("observer")
    /\ rejected' = IF rejected = event.src_path THEN <<>> ELSE rejected
    /\ obs_pc' = "v_write"
    /\ UNCHANGED <<q_cnt, v_cnt, q_lock, v_lock, event, stat, files>>
    /\ UNCHANGED obs_frame

\* on_modified, line 39, the assignment to self._v_cnt, and the end of the with
on_modified_write ==
    /\ obs_pc = "v_write"
    /\ v_cnt' = notif(event, x_cnt).ret
    /\ v_lock' = "free"
    /\ Return
    /\ UNCHANGED <<recent_events, q_cnt, q_lock, run, recorded, ledger_locks, rejected, files>>
    /\ UNCHANGED obs_frame

\* mutant: on_created does not look at the ledger
on_created_unchecked ==
    /\ obs_pc = "on_created"
    /\ IF Contains(XDRX, event.src_path)
       THEN obs_pc' = "q_lock" /\ UNCHANGED <<event, x_cnt, stat, obs_out>>
       ELSE Return
    /\ UNCHANGED <<recent_events, q_cnt, v_cnt, q_lock, v_lock, run, recorded,
                   ledger_locks, rejected, files>>
    /\ UNCHANGED obs_frame

\* on_created, line 43: the extension and ledger test
on_created ==
    /\ obs_pc = "on_created"
    /\ IF Contains(XDRX, event.src_path) /\ event.src_path \notin Range(recent_events)
       THEN obs_pc' = "q_lock" /\ UNCHANGED <<event, x_cnt, stat, obs_out>>
       ELSE Return
    /\ UNCHANGED <<recent_events, q_cnt, v_cnt, q_lock, v_lock, run, recorded,
                   ledger_locks, rejected, files>>
    /\ UNCHANGED obs_frame

\* on_created, line 44: with q_lock
on_created_lock ==
    /\ obs_pc = "q_lock"
    /\ acquire(q_lock)
    /\ q_lock' = "observer"
    /\ obs_pc' = "q_notif"
    /\ UNCHANGED <<recent_events, q_cnt, v_cnt, v_lock, event, x_cnt, stat,
                   obs_out, run, recorded, ledger_locks, rejected, files>>
    /\ UNCHANGED obs_frame

\* on_created, line 45, right-hand side: self.notif(event, self._q_cnt)
on_created_notif ==
    /\ obs_pc = "q_notif"
    /\ x_cnt' = q_cnt
    /\ recent_events' = deque_append(recent_events, event.src_path)
    /\ obs_out' = obs_out \o notif(event, q_cnt).lines
    /\ run' = [run EXCEPT !.q = Rendered(@, event, notif(event, q_cnt).lines)]
    /\ recorded' = Record(recorded, event.src_path)
    /\ ledger_locks' = ledger_locks \cap HeldBy("observer")
    /\ rejected' = IF rejected = event.src_path THEN <<>> ELSE rejected
    /\ obs_pc' = "q_write"
    /\ UNCHANGED <<q_cnt, v_cnt, q_lock, v_lock, event, stat, files>>
    /\ UNCHANGED obs_frame

\* on_created, line 45, the assignment to self._q_cnt, and the end of the with
on_created_write ==
    /\ obs_pc = "q_write"
    /\ q_cnt' = notif(event, x_cnt).ret
    /\ q_lock' = "free"
    /\ Return
    /\ UNCHANGED <<recent_events, v_cnt, v_lock, run, recorded, ledger_locks, rejected, files>>
    /\ UNCHANGED obs_frame

Handler(results) ==
    \/ on_modified \/ on_modified_size(results) \/ on_modified_if_large
    \/ on_modified_lock
    \/ on_modified_notif \/ on_modified_write
    \/ on_created \/ on_created_lock \/ on_created_notif \/ on_created_write

-----------------------------------------------------------------------------
(* The get_input thread *)

\* back at `while True`: the line just handled is forgotten
NextLine ==
    /\ inp_pc' = "input"
    /\ inp' = <<>>
    /\ count' = 0
    /\ inp_out' = <<>>

\* lines 127-140: input(''), the help text, the first digit
ReadLine(line) ==
    /\ inp_pc = "input"
    /\ inp' = line
    /\ count' = first_digit(line)
    /\ inp_out' = IF line = HELP THEN help_text ELSE <<>>
    /\ cmds' = cmds + 1
    /\ inp_pc' = "q_if"
    /\ UNCHANGED <<q_cnt, v_cnt, q_lock, v_lock, run>>
    /\ UNCHANGED inp_frame

\* line 149: input('') raises EOFError and the thread ends
EndOfInput ==
    /\ inp_pc = "input"
    /\ inp_pc' = "done"
    /\ UNCHANGED <<q_cnt, v_cnt, q_lock, v_lock, run, inp, count, inp_out, cmds>>
    /\ UNCHANGED inp_frame

\* lines 141-142: if 'q' in inp.lower(): with q_lock
input_q_if ==
    /\ inp_pc = "q_if"
    /\ IF Contains(<<"q">>, Lower(inp))
       THEN acquire(q_lock) /\ q_lock' = "input" /\ inp_pc' = "q_set"
       ELSE q_lock' = q_lock /\ inp_pc' = "v_if"
    /\ UNCHANGED <<q_cnt, v_cnt, v_lock, run, inp, count, inp_out, cmds>>
    /\ UNCHANGED inp_frame

\* line 143: labhandler.q_cnt = count
input_q_set ==
    /\ inp_pc = "q_set"
    /\ q_cnt' = q_cnt_setter(q_cnt, count)
    /\ run' = [run EXCEPT !.q = NoRun(q_cnt, q_cnt')]
    /\ inp_pc' = "q_print"
    /\ UNCHANGED <<v_cnt, q_lock, v_lock, inp, count, inp_out, cmds>>
    /\ UNCHANGED inp_frame

\* line 144: print(labhandler.q_cnt)
input_q_print ==
    /\ inp_pc = "q_print"
    /\ inp_out' = Append(inp_out, notify_setting(qiaxcel_str, q_cnt))
    /\ inp_pc' = "q_release"
    /\ UNCHANGED <<q_cnt, v_cnt, q_lock, v_lock, run, inp, count, cmds>>
    /\ UNCHANGED inp_frame

\* mutant: the v test is indented into `with q_lock`, which stays held
input_q_release_nested ==
    /\ inp_pc = "q_release"
    /\ q_lock' = q_lock
    /\ inp_pc' = "v_if"
    /\ UNCHANGED <<q_cnt, v_cnt, v_lock, run, inp, count, inp_out, cmds>>
    /\ UNCHANGED inp_frame

\* the end of `with q_lock`
input_q_release ==
    /\ inp_pc = "q_release"
    /\ q_lock' = "free"
    /\ inp_pc' = "v_if"
    /\ UNCHANGED <<q_cnt, v_cnt, v_lock, run, inp, count, inp_out, cmds>>
    /\ UNCHANGED inp_frame

\* lines 145-146: if 'v' in inp.lower(): with v_lock
input_v_if ==
    /\ inp_pc = "v_if"
    /\ IF Contains(<<"v">>, Lower(inp))
       THEN /\ acquire(v_lock)
            /\ v_lock' = "input"
            /\ inp_pc' = "v_set"
            /\ UNCHANGED <<inp, count, inp_out>>
       ELSE v_lock' = v_lock /\ NextLine
    /\ UNCHANGED <<q_cnt, v_cnt, q_lock, run, cmds>>
    /\ UNCHANGED inp_frame

\* mutant: the v branch assigns the Qiaxcel's counter
input_v_set_q ==
    /\ inp_pc = "v_set"
    /\ q_cnt' = q_cnt_setter(q_cnt, count)
    /\ run' = [run EXCEPT !.q = NoRun(q_cnt, q_cnt')]
    /\ inp_pc' = "v_print"
    /\ UNCHANGED <<v_cnt, q_lock, v_lock, inp, count, inp_out, cmds>>
    /\ UNCHANGED inp_frame

\* line 147: labhandler.v_cnt = count
input_v_set ==
    /\ inp_pc = "v_set"
    /\ v_cnt' = v_cnt_setter(v_cnt, count)
    /\ run' = [run EXCEPT !.v = NoRun(v_cnt, v_cnt')]
    /\ inp_pc' = "v_print"
    /\ UNCHANGED <<q_cnt, q_lock, v_lock, inp, count, inp_out, cmds>>
    /\ UNCHANGED inp_frame

\* line 148: print(labhandler.v_cnt)
input_v_print ==
    /\ inp_pc = "v_print"
    /\ inp_out' = Append(inp_out, notify_setting(viia7_str, v_cnt))
    /\ inp_pc' = "v_release"
    /\ UNCHANGED <<q_cnt, v_cnt, q_lock, v_lock, run, inp, count, cmds>>
    /\ UNCHANGED inp_frame

\* the end of `with v_lock`, and back to the top of the loop
input_v_release ==
    /\ inp_pc = "v_release"
    /\ v_lock' = "free"
    /\ NextLine
    /\ UNCHANGED <<q_cnt, v_cnt, q_lock, run, cmds>>
    /\ UNCHANGED inp_frame

get_input ==
    \/ input_q_if \/ input_q_set \/ input_q_print \/ input_q_release
    \/ input_v_if \/ input_v_set \/ input_v_print \/ input_v_release

-----------------------------------------------------------------------------
(* The environment of Spec: a small catalogue of run files, any event on
   any of them at any time, and a few command lines. *)

Users == <<<<"a", "l">>, <<"J", "O">>, <<"j", "o">>>>
Exts == <<EDS, XDRX, TXT, EDS>>

Catalog(i) ==
    FilePath(Users[((i - 1) % Len(Users)) + 1], ToString(i), Exts[((i - 1) % Len(Exts)) + 1])

Kinds == {"modified", "created", "deleted", "moved"}

Logins == {<<"j", "o">>, <<"J", "o">>}

CommandLines ==
    {<<"q">>, <<"v">>, <<"q", "v", "3">>, <<"V", "2", "5">>, HELP, <<"7">>}

\* lines 188-202: the state once the watches are scheduled and the observer
\* and input threads run, when the process starts in month m with directories d
Started(m, d) ==
    LET curr == viia7_path(FALSE, m, d)
        last == viia7_path(TRUE, m, curr.dirs)
    IN  /\ last.ok
        /\ main_pc = "loop"
        /\ today = m
        /\ ticks = 0
        /\ current_month_year = m
        /\ dirs = curr.dirs
        /\ viia7 = curr.path
        /\ viia7last = last.path
        /\ observer = "started"
        /\ main_out = <<[text |-> "Running...", month |-> 0]>>
        /\ viia7watch_last = last.path
        /\ viia7watch_curr = curr.path
        /\ watches = {qiaxcel, last.path, curr.path}
        /\ watch_log = <<[op |-> "schedule", path |-> qiaxcel],
                         [op |-> "schedule", path |-> last.path],
                         [op |-> "schedule", path |-> curr.path]>>

InitThreads ==
    /\ login \in Logins
    /\ recent_events = <<<<"g">>, <<"h">>, <<"i">>>>
    /\ q_cnt = 0
    /\ v_cnt = 0
    /\ q_lock = "free"
    /\ v_lock = "free"
    /\ obs_pc = "idle"
    /\ event = NoEvent
    /\ x_cnt = 0
    /\ stat = NoStat
    /\ obs_out = <<>>
    /\ inp_pc = "input"
    /\ inp = <<>>
    /\ count = 0
    /\ inp_out = <<>>
    /\ run = [q |-> NoRun(0, 0), v |-> NoRun(0, 0)]
    /\ recorded = <<>>
    /\ ledger_locks = {"q_lock", "v_lock"}
    /\ rejected = <<>>
    /\ files = 0
    /\ cmds = 0

\* the process starts in February and finds January's directory
Init ==
    /\ InitThreads
    /\ Started(2, {build_path("Jan", 0)})

Deliver ==
    \E k \in Kinds, i \in 1..MaxFiles :
        Dispatch([event_type |-> k, src_path |-> Catalog(i)], files)

Command ==
    /\ cmds < MaxCmds
    /\ \E line \in CommandLines : ReadLine(line)

Next ==
    \/ Deliver
    \/ Handler(StatResults)
    \/ Command
    \/ EndOfInput
    \/ get_input

Spec == Init /\ [][Next]_vars

-----------------------------------------------------------------------------
(* Long runs, one thing at a time: each instrument run produces a new file,
   the user types between two events, and the files are large or missing
   (a small file is not recorded, and is looked at again when it grows). *)

LargeResults == {st \in StatResults : is_large_enough(st)}

\* the i-th run file: odd runs are Viia7 runs, even runs Qiaxcel runs
RunEvent(i) ==
    IF i % 2 = 1
    THEN [event_type |-> "modified", src_path |-> FilePath(<<"a", "l">>, ToString(i), EDS)]
    ELSE [event_type |-> "created", src_path |-> FilePath(<<"a", "l">>, ToString(i), XDRX)]

\* the i-th run file when only the Qiaxcel is running
QiaxcelEvent(i) ==
    [event_type |-> "created", src_path |-> FilePath(<<"a", "l">>, ToString(i), XDRX)]

\* a run finishes and its file appears
NewRun(limit) ==
    /\ inp_pc \in {"input", "done"}
    /\ files < limit
    /\ Dispatch(RunEvent(files + 1), files + 1)

\* the file system reports the newest file once more
SameRunAgain ==
    /\ inp_pc \in {"input", "done"}
    /\ files > 0
    /\ Dispatch(RunEvent(files), files)

\* the first run is saved again
FirstRunAgain ==
    /\ inp_pc \in {"input", "done"}
    /\ files > 0
    /\ Dispatch(RunEvent(1), files)

\* the user types a line while no event is being handled
TypeLine(lines, limit) ==
    /\ obs_pc = "idle"
    /\ cmds < limit
    /\ \E line \in lines : ReadLine(line)

\* q<n> and v<n> for every countdown value, and the two toggles
CountLines ==
    {<<"q">>, <<"v">>} \cup
    {<<s, d>> : s \in {"q", "v"}, d \in Digits \ {"0", "1"}}

NextCountdown ==
    \/ NewRun(CountFiles)
    \/ SameRunAgain
    \/ Handler(LargeResults)
    \/ TypeLine(CountLines, CountCmds)
    \/ get_input

SpecCountdown == Init /\ [][NextCountdown]_vars

NextLedger ==
    \/ NewRun(LedgerFiles)
    \/ SameRunAgain
    \/ FirstRunAgain
    \/ Handler(LargeResults)

SpecLedger == Init /\ [][NextLedger]_vars

\* the user types q once, before the first run; then the Qiaxcel runs
NextAlways ==
    \/ (files = 0 /\ cmds = 0 /\ ReadLine(<<"q">>))
    \/ input_q_if \/ input_q_set \/ input_q_print \/ input_q_release \/ input_v_if
    \/ (/\ inp_pc = "input"
        /\ cmds > 0
        /\ files < AlwaysFiles
        /\ Dispatch(QiaxcelEvent(files + 1), files + 1))
    \/ on_created \/ on_created_lock \/ on_created_notif \/ on_created_write

SpecAlways == Init /\ [][NextAlways]_vars

-----------------------------------------------------------------------------
(* The main thread: the hourly check of the month, lines 203-212. *)

main_frame == <<login, handler_vars, inp_pc, inp, count, inp_out, cmds>>

\* the calendar moves on to the next month; the loop looks every hour, so it
\* has seen the month before the next one begins
Tick ==
    /\ main_pc = "loop"
    /\ current_month_year = today
    /\ today' = today + 1
    /\ ticks' = ticks + 1
    /\ UNCHANGED <<main_pc, current_month_year, dirs, viia7, viia7last, observer,
                   main_out, viia7watch_last, viia7watch_curr, watches, watch_log>>
    /\ UNCHANGED main_frame

\* lines 205-208: the month has changed; viia7_path() finds or makes the directory
rotation_check ==
    /\ main_pc = "loop"
    /\ current_month_year # today
    /\ current_month_year' = today
    /\ LET curr == viia7_path(FALSE, today, dirs)
       IN  viia7' = curr.path /\ dirs' = curr.dirs
    /\ main_out' = Append(main_out, [text |-> "The month has changed to", month |-> today])
    /\ main_pc' = "unschedule"
    /\ UNCHANGED <<today, viia7last, observer, viia7watch_last, viia7watch_curr, watches,
                   watch_log, ticks>>
    /\ UNCHANGED main_frame

\* mutant: the rotation unschedules the current month's watch
unscheduled_watch_curr == viia7watch_curr

\* mutant: the rotation unschedules the watch on the Qiaxcel's directory
unscheduled_watch_qiaxcel == qiaxcel

\* the watch rotation_unschedule hands to observer.unschedule
unscheduled_watch == viia7watch_last

\* line 209: observer.unschedule(viia7watch_last)
rotation_unschedule ==
    /\ main_pc = "unschedule"
    /\ unscheduled_watch \in watches
    /\ watches' = watches \ {unscheduled_watch}
    /\ watch_log' = Append(watch_log, [op |-> "unschedule", path |-> unscheduled_watch])
    /\ main_pc' = "schedule"
    /\ UNCHANGED <<today, current_month_year, dirs, viia7, viia7last, observer,
                   main_out, viia7watch_last, viia7watch_curr, ticks>>
    /\ UNCHANGED main_frame

\* mutant: line 210 is missing, the current watch is not handed down
rotation_schedule_unpromoted ==
    /\ main_pc = "schedule"
    /\ viia7watch_last' = viia7watch_last
    /\ viia7watch_curr' = viia7
    /\ watches' = watches \cup {viia7}
    /\ watch_log' = IF viia7 \in watches THEN watch_log
                    ELSE Append(watch_log, [op |-> "schedule", path |-> viia7])
    /\ main_pc' = "loop"
    /\ UNCHANGED <<today, current_month_year, dirs, viia7, viia7last, observer, main_out,
                   ticks>>
    /\ UNCHANGED main_frame

\* lines 210-211: the current watch becomes last month's, and observer.schedule
\* makes a watch on the new directory (or returns the one it has on that path)
rotation_schedule ==
    /\ main_pc = "schedule"
    /\ viia7watch_last' = viia7watch_curr
    /\ viia7watch_curr' = viia7
    /\ watches' = watches \cup {viia7}
    /\ watch_log' = IF viia7 \in watches THEN watch_log
                    ELSE Append(watch_log, [op |-> "schedule", path |-> viia7])
    /\ main_pc' = "loop"
    /\ UNCHANGED <<today, current_month_year, dirs, viia7, viia7last, observer, main_out,
                   ticks>>
    /\ UNCHANGED main_frame

StartMonths == {2, 8, 12}

\* every naming variant of the directories of months m - 1 to m + 1
MonthDirs(m) ==
    UNION {{build_path(Abbr[MonthOf(k)], YearOf(k)), build_path(Full[MonthOf(k)], YearOf(k))}
           \cup (IF MonthOf(k) = 9 THEN {build_path("Sept", YearOf(k))} ELSE {})
           : k \in (m - 1)..(m + 1)}

\* the process has started in one of the start months, with any directories
\* that let last month's directory be found
InitRotation ==
    /\ InitThreads
    /\ \E m \in StartMonths : \E d \in SUBSET MonthDirs(m) : Started(m, d)

NextRotation ==
    \/ (ticks < MaxMonths /\ Tick)
    \/ rotation_check
    \/ rotation_unschedule
    \/ rotation_schedule

SpecRotation == InitRotation /\ [][NextRotation]_vars

-----------------------------------------------------------------------------
(* The main thread from the start of the process: lines 188-202. *)

NoPath == [year |-> 0, month |-> ""]

\* line 175: what viia7_path prints before it raises FileNotFoundError
cant_find == [text |-> "Cant find last month's Viia7 Path", month |-> 0]

\* lines 188-190: the month is noted and viia7_path() finds or makes this
\* month's directory
startup_current ==
    /\ main_pc = "start"
    /\ current_month_year' = today
    /\ LET curr == viia7_path(FALSE, today, dirs)
       IN  viia7' = curr.path /\ dirs' = curr.dirs
    /\ main_pc' = "viia7last"
    /\ UNCHANGED <<today, viia7last, observer, main_out, viia7watch_last, viia7watch_curr,
                   watches, watch_log, ticks>>
    /\ UNCHANGED main_frame

\* line 191: viia7_path(last=True) finds last month's directory, or prints
\* its message and raises FileNotFoundError, which nothing catches
startup_last ==
    /\ main_pc = "viia7last"
    /\ LET last == viia7_path(TRUE, today, dirs)
       IN  /\ dirs' = last.dirs
           /\ IF last.ok
              THEN viia7last' = last.path /\ main_pc' = "observe" /\ main_out' = main_out
              ELSE viia7last' = viia7last /\ main_pc' = "failed"
                   /\ main_out' = Append(main_out, cant_find)
    /\ UNCHANGED <<today, current_month_year, viia7, observer, viia7watch_last,
                   viia7watch_curr, watches, watch_log, ticks>>
    /\ UNCHANGED main_frame

\* lines 192-197: the handler, the observer, its three watches, observer.start()
startup_observe ==
    /\ main_pc = "observe"
    /\ viia7watch_last' = viia7last
    /\ viia7watch_curr' = viia7
    /\ watches' = {qiaxcel, viia7last, viia7}
    /\ watch_log' = <<[op |-> "schedule", path |-> qiaxcel],
                      [op |-> "schedule", path |-> viia7last],
                      [op |-> "schedule", path |-> viia7]>>
    /\ observer' = "started"
    /\ main_pc' = "threads"
    /\ UNCHANGED <<today, current_month_year, dirs, viia7, viia7last, main_out, ticks>>
    /\ UNCHANGED main_frame

\* lines 199-202: the greeting, and the get_input thread starts
startup_threads ==
    /\ main_pc = "threads"
    /\ inp_pc = "unstarted"
    /\ main_out' = Append(main_out, [text |-> "Running...", month |-> 0])
    /\ inp_pc' = "input"
    /\ main_pc' = "loop"
    /\ UNCHANGED <<today, current_month_year, dirs, viia7, viia7last, observer,
                   viia7watch_last, viia7watch_curr, watches, watch_log, ticks>>
    /\ UNCHANGED <<login, handler_vars, inp, count, inp_out, cmds>>

\* the months the process is started in: June (May is its own abbreviation),
\* September, October (September was last month), January of the next year
ProcessMonths == {6, 9, 10, 13}

\* the state before line 188, in month m with the directories d on the share
Process(m, d) ==
    /\ main_pc = "start"
    /\ today = m
    /\ ticks = 0
    /\ current_month_year = 0
    /\ dirs = d
    /\ viia7 = NoPath
    /\ viia7last = NoPath
    /\ observer = "new"
    /\ main_out = <<>>
    /\ viia7watch_last = NoPath
    /\ viia7watch_curr = NoPath
    /\ watches = {}
    /\ watch_log = <<>>

\* the handler's class attributes and the locks, no thread running yet
InitProcess ==
    /\ login \in Logins
    /\ recent_events = <<<<"g">>, <<"h">>, <<"i">>>>
    /\ q_cnt = 0
    /\ v_cnt = 0
    /\ q_lock = "free"
    /\ v_lock = "free"
    /\ obs_pc = "idle"
    /\ event = NoEvent
    /\ x_cnt = 0
    /\ stat = NoStat
    /\ obs_out = <<>>
    /\ inp_pc = "unstarted"
    /\ inp = <<>>
    /\ count = 0
    /\ inp_out = <<>>
    /\ run = [q |-> NoRun(0, 0), v |-> NoRun(0, 0)]
    /\ recorded = <<>>
    /\ ledger_locks = {"q_lock", "v_lock"}
    /\ rejected = <<>>
    /\ files = 0
    /\ cmds = 0

InitStartup ==
    /\ InitProcess
    /\ \E m \in ProcessMonths : \E d \in SUBSET MonthDirs(m) : Process(m, d)

NextStartup ==
    \/ startup_current
    \/ startup_last
    \/ startup_observe
    \/ startup_threads

SpecStartup == InitStartup /\ [][NextStartup]_vars

-----------------------------------------------------------------------------
(* The main thread's way out: lines 213-218. *)

bye == [text |-> "bye!", month |-> 0]

shutdown_frame == <<today, current_month_year, dirs, viia7, viia7last, viia7watch_last,
                    viia7watch_curr, watches, watch_log, ticks>>

\* line 213: Ctrl+C raises KeyboardInterrupt in the main thread, which is
\* somewhere inside the try of line 203
Interrupt ==
    /\ main_pc \in {"loop", "unschedule", "schedule"}
    /\ main_pc' = "stop"
    /\ UNCHANGED <<observer, main_out>>
    /\ UNCHANGED shutdown_frame
    /\ UNCHANGED main_frame

\* line 214: observer.stop(); the observer thread dispatches no further event
shutdown_stop ==
    /\ main_pc = "stop"
    /\ observer' = "stopped"
    /\ main_pc' = "join"
    /\ UNCHANGED main_out
    /\ UNCHANGED shutdown_frame
    /\ UNCHANGED main_frame

\* mutant: the farewell does not wait for the input thread
shutdown_join_nowait ==
    /\ main_pc = "join"
    /\ main_pc' = "bye"
    /\ UNCHANGED <<observer, main_out>>
    /\ UNCHANGED shutdown_frame
    /\ UNCHANGED main_frame

\* line 215: input_loop.join() returns once get_input has returned
shutdown_join ==
    /\ main_pc = "join"
    /\ inp_pc = "done"
    /\ main_pc' = "bye"
    /\ UNCHANGED <<observer, main_out>>
    /\ UNCHANGED shutdown_frame
    /\ UNCHANGED main_frame

\* line 216: print('\nbye!')
shutdown_bye ==
    /\ main_pc = "bye"
    /\ main_out' = Append(main_out, bye)
    /\ main_pc' = "observer_join"
    /\ UNCHANGED observer
    /\ UNCHANGED shutdown_frame
    /\ UNCHANGED main_frame

\* line 217: observer.join() returns once the stopped observer thread has
\* come back from the handler
shutdown_observer_join ==
    /\ main_pc = "observer_join"
    /\ observer = "stopped"
    /\ obs_pc = "idle"
    /\ main_pc' = "input_join"
    /\ UNCHANGED <<observer, main_out>>
    /\ UNCHANGED shutdown_frame
    /\ UNCHANGED main_frame

\* line 218: input_loop.join() once more, and the main thread ends
shutdown_input_join ==
    /\ main_pc = "input_join"
    /\ inp_pc = "done"
    /\ main_pc' = "exit"
    /\ UNCHANGED <<observer, main_out>>
    /\ UNCHANGED shutdown_frame
    /\ UNCHANGED main_frame

shutdown ==
    \/ shutdown_stop \/ shutdown_join \/ shutdown_bye
    \/ shutdown_observer_join \/ shutdown_input_join

rotation == rotation_check \/ rotation_unschedule \/ rotation_schedule

\* the Qiaxcel's side of the handler and of get_input
qiaxcel_handler == on_created \/ on_created_lock \/ on_created_notif \/ on_created_write
qiaxcel_input == input_q_if \/ input_q_set \/ input_q_print \/ input_q_release \/ input_v_if

\* the whole process, the Qiaxcel running: a created event on any of its files
\* while the observer runs, the line q or the end of input at any time, Ctrl+C
\* at any time
NextShutdown ==
    \/ (\E i \in 1..ShutFiles : Dispatch(QiaxcelEvent(i), files))
    \/ qiaxcel_handler
    \/ (cmds < ShutCmds /\ ReadLine(<<"q">>))
    \/ EndOfInput
    \/ qiaxcel_input
    \/ (ticks < ShutMonths /\ Tick)
    \/ rotation
    \/ Interrupt
    \/ shutdown

\* each thread that can take a step eventually takes one
SpecShutdown ==
    /\ Init
    /\ [][NextShutdown]_vars
    /\ WF_vars(shutdown)
    /\ WF_vars(rotation)
    /\ WF_vars(qiaxcel_input)
    /\ WF_vars(qiaxcel_handler)

\* the three threads together: modified and created events on a few files,
\* any command line, and the month changing under the rotation loop
NextFrame ==
    \/ (\E k \in {"modified", "created"}, i \in 1..FrameFiles :
            Dispatch([event_type |-> k, src_path |-> Catalog(i)], files))
    \/ Handler(StatResults)
    \/ (cmds < FrameCmds /\ \E line \in CommandLines : ReadLine(line))
    \/ get_input
    \/ (ticks < FrameMonths /\ Tick)
    \/ rotation

SpecFrame == Init /\ [][NextFrame]_vars

-----------------------------------------------------------------------------
(* Properties *)

Sources == {"q", "v"}
Counter(s) == IF s = "q" THEN q_cnt ELSE v_cnt
\* notif has returned for source s and its result is not yet assigned
Writing(s) == obs_pc = (IF s = "q" THEN "q_write" ELSE "v_write")

\* what the handler has printed for the current event
PrintedDistinguished == \E i \in DOMAIN obs_out : IsDistinguishedLine(obs_out[i])
PrintedNormal == \E i \in DOMAIN obs_out : IsNormalLine(obs_out[i])

\* C1: countdown.  Once a command has set a source's counter to n, 1 < n <= 9,
\* and while the login name occurs in none of the rendered paths, the first
\* n - 1 renders of that source are normal, the n-th is distinguished, and after
\* the n-th the counter is exactly 0.
C1_Countdown ==
    \A s \in Sources :
        LET r == run[s]
        IN  (r.start > 1 /\ r.start <= 9 /\ r.nologin /\ r.len >= 1 /\ r.len <= r.start)
            => /\ r.normal = (IF r.len = r.start THEN r.start - 1 ELSE r.len)
               /\ Writing(s) => (PrintedDistinguished <=> r.len = r.start)
               /\ Writing(s) => (PrintedNormal <=> r.len < r.start)
               /\ (r.len = r.start /\ ~Writing(s)) => Counter(s) = 0

\* C1 witness: nine renders after q9 / v9 have brought the counter to 0
C1_Witness ==
    /\ obs_pc = "idle"
    /\ \E s \in Sources :
        run[s].start = 9 /\ run[s].len = 9 /\ run[s].normal = 8 /\ Counter(s) = 0

\* C2: always mode is permanent under rendering.  After the toggle has put a
\* counter in always mode, every render of that source is distinguished and
\* the counter stays above 9, however many renders follow.
C2_AlwaysPermanent ==
    \A s \in Sources :
        (run[s].prev <= 0 /\ run[s].start > 9) => (Counter(s) > 9 /\ run[s].normal = 0)

\* C3: toggle rule.  Just after a command has assigned a counter: input 0 on
\* a counter > 0 left 0, input 0 on a counter <= 0 (negative included) left a
\* value > 9, and a digit 1..9 left exactly that digit.
C3_ToggleRule ==
    /\ inp_pc = "q_print" =>
        /\ (count = 0 /\ run.q.prev > 0) => q_cnt = 0
        /\ (count = 0 /\ run.q.prev <= 0) => q_cnt > 9
        /\ count \in 1..9 => q_cnt = count
    /\ inp_pc = "v_print" =>
        /\ (count = 0 /\ run.v.prev > 0) => v_cnt = 0
        /\ (count = 0 /\ run.v.prev <= 0) => v_cnt > 9
        /\ count \in 1..9 => v_cnt = count

\* C3 witness: a counter that renders had taken below 0 has been toggled
C3_Witness == inp_pc = "v_print" /\ count = 0 /\ run.v.prev < 0 /\ v_cnt > 9

\* the path is among the maxlen most recently recorded paths
InWindow(path) ==
    \E i \in DOMAIN recorded : i > Len(recorded) - maxlen /\ recorded[i] = path

\* C4: duplicate suppression.  An event on a path that is among the 30 most
\* recently recorded paths makes the handler return at its first test: nothing
\* is printed, the ledger and both counters stay as they are, and the handler
\* is never past that test with such a path.
C4_NoRenotify ==
    /\ [](obs_pc \in {"is_large_enough", "if_large_enough", "v_lock", "v_notif",
                      "q_lock", "q_notif"} => ~InWindow(event.src_path))
    /\ [][(/\ obs_pc \in {"on_modified", "on_created"}
           /\ InWindow(event.src_path)
           /\ obs_pc' # obs_pc)
          => /\ obs_pc' = "idle"
             /\ obs_out = <<>>
             /\ UNCHANGED <<recent_events, recorded, q_cnt, v_cnt>>]_vars

\* C4 witness: an event arrives for a recorded path, the ledger being full
C4_Witness ==
    /\ obs_pc \in {"on_modified", "on_created"}
    /\ InWindow(event.src_path)
    /\ Len(recorded) > maxlen

\* C5: no lost update.  The value notif was given is still the counter's value
\* when its result is assigned, the handler holding the lock in between; and
\* the value a command assigned is still there when the command prints it.
C5_NoLostUpdate ==
    /\ obs_pc = "v_write" => (x_cnt = v_cnt /\ v_lock = "observer")
    /\ obs_pc = "q_write" => (x_cnt = q_cnt /\ q_lock = "observer")
    /\ inp_pc \in {"v_print", "v_release"} => (v_cnt = run.v.start /\ run.v.len = 0)
    /\ inp_pc \in {"q_print", "q_release"} => (q_cnt = run.q.start /\ run.q.len = 0)

\* C5 witness: a render of a Viia7 event is about to assign the counter while
\* a command on the same counter waits for the lock
C5_Witness ==
    /\ obs_pc = "v_write"
    /\ inp_pc = "v_if"
    /\ Contains(<<"v">>, Lower(inp))

\* C6: distinguished rule.  A render is distinguished iff the login name
\* occurs in the path compared case-insensitively, or the counter was 1, or
\* the counter was above 9; otherwise it is normal.
C6_DistinguishedRule ==
    \A s \in Sources :
        Writing(s) =>
            LET d == LoginInPath(event.src_path) \/ x_cnt = 1 \/ x_cnt > 9
            IN  (PrintedDistinguished <=> d) /\ (PrintedNormal <=> ~d)

\* the letter occurs in the line typed, in either case
HasLetter(lower, upper) == \E i \in DOMAIN inp : inp[i] \in {lower, upper}

StatusIn(machine, n) ==
    [machine |-> machine, text |-> "Notifying in n runs time", n |-> n]

\* C7: command parsing.  The value applied is the first digit of the line, 0
\* when it has none; the Qiaxcel counter is set iff the line has the letter q
\* and the Viia7 counter iff it has the letter v; and the status a command
\* with a digit 1..9 prints for a source is "Notifying in <digit> runs time".
C7_CommandParsing ==
    /\ [](inp_pc \notin {"input", "done"} =>
            IF \E i \in DOMAIN inp : inp[i] \in Digits
            THEN \E i \in DOMAIN inp :
                    /\ inp[i] \in Digits
                    /\ \A j \in 1..(i - 1) : inp[j] \notin Digits
                    /\ ToString(count) = inp[i]
            ELSE count = 0)
    /\ [][(inp_pc = "q_if" /\ inp_pc' # inp_pc) =>
            IF HasLetter("q", "Q") THEN inp_pc' = "q_set"
            ELSE inp_pc' = "v_if" /\ q_cnt' = q_cnt]_vars
    /\ [][(inp_pc = "v_if" /\ inp_pc' # inp_pc) =>
            IF HasLetter("v", "V") THEN inp_pc' = "v_set"
            ELSE inp_pc' = "input" /\ v_cnt' = v_cnt]_vars
    /\ []((inp_pc = "q_release" /\ count \in 1..9) =>
            q_cnt = count /\ inp_out[Len(inp_out)] = StatusIn(qiaxcel_str, count))
    /\ []((inp_pc = "v_release" /\ count \in 1..9) =>
            v_cnt = count /\ inp_out[Len(inp_out)] = StatusIn(viia7_str, count))

\* C7 witness: qv3 has printed both statuses while a Viia7 event waits for
\* the lock
C7_Witness ==
    /\ inp = <<"q", "v", "3">>
    /\ inp_pc = "v_release"
    /\ inp_out = <<StatusIn(qiaxcel_str, 3), StatusIn(viia7_str, 3)>>
    /\ q_cnt = 3
    /\ v_cnt = 3
    /\ obs_pc = "v_lock"

\* C8: ledger eviction.  The ledger never holds more than 30 entries, and
\* when the last 31 recorded paths are pairwise distinct, the first of them is
\* not in the ledger and the other 30 are.
C8_LedgerEviction ==
    /\ Len(recent_events) <= 30
    /\ (/\ Len(recorded) = 31
        /\ \A i, j \in DOMAIN recorded : i # j => recorded[i] # recorded[j])
       => /\ recorded[1] \notin Range(recent_events)
          /\ \A i \in 2..31 : recorded[i] \in Range(recent_events)

\* C8 witness: 31 paths have been recorded
C8_Witness == Len(recorded) = 31 /\ obs_pc = "idle"

\* how often the observer was asked for this operation on this path
Count(op, path) ==
    Cardinality({i \in DOMAIN watch_log : watch_log[i] = [op |-> op, path |-> path]})

\* C9: month rotation.  Once the loop has seen the current month, the current
\* watch is on this month's directory and the last watch on the previous
\* month's; neither was ever unscheduled nor scheduled twice; every older
\* month watch was unscheduled exactly once; one unschedule per month change.
C9_MonthRotation ==
    (main_pc = "loop" /\ current_month_year = today) =>
        /\ today \in MonthsNamed(viia7watch_curr)
        /\ (today - 1) \in MonthsNamed(viia7watch_last)
        /\ watches = {qiaxcel, viia7watch_last, viia7watch_curr}
        /\ \A w \in {viia7watch_last, viia7watch_curr} :
                Count("unschedule", w) = 0 /\ Count("schedule", w) = 1
        /\ \A i \in DOMAIN watch_log :
                LET w == watch_log[i].path
                IN  w \notin {qiaxcel, viia7watch_last, viia7watch_curr}
                    => Count("unschedule", w) = 1 /\ Count("schedule", w) = 1
        /\ Cardinality({i \in DOMAIN watch_log : watch_log[i].op = "unschedule"}) = ticks

\* C9 witness: started in February with January's watch, now in March
C9_Witness ==
    /\ main_pc = "loop"
    /\ current_month_year = today
    /\ today = 3
    /\ viia7watch_last.month \in {"Feb", "February"}
    /\ viia7watch_curr.month \in {"Mar", "March"}
    /\ \E w \in {build_path("Jan", 0), build_path("January", 0)} :
            Count("unschedule", w) = 1 /\ w \notin watches

WarningPrinted == \E i \in DOMAIN obs_out : obs_out[i].text = "wasn't saved properly!"

\* C10: size gate.  A Viia7 candidate goes on iff os.stat failed or the size
\* is above 1,300,000; a rejected one changes nothing; a failed os.stat has
\* printed the warning, and the file is then recorded, notified and the
\* counter decremented like any accepted one.
C10_SizeGate ==
    /\ []((obs_pc = "if_large_enough" /\ ~stat.ok) => WarningPrinted)
    /\ [][(obs_pc = "if_large_enough" /\ obs_pc' # obs_pc) =>
            IF ~stat.ok \/ stat.st_size > 1300000
            THEN obs_pc' = "v_lock"
            ELSE obs_pc' = "idle" /\ UNCHANGED <<recent_events, q_cnt, v_cnt>>]_vars
    /\ [](obs_pc \in {"v_lock", "v_notif", "v_write"} =>
            (~stat.ok \/ stat.st_size > 1300000))
    /\ [](obs_pc = "v_write" =>
            /\ event.src_path \in Range(recent_events)
            /\ PrintedDistinguished \/ PrintedNormal)
    /\ [][(obs_pc = "v_write" /\ obs_pc' # obs_pc) =>
            obs_pc' = "idle" /\ v_cnt' = v_cnt - 1]_vars

\* C10 witness: os.stat failed, the warning is printed and the file notified
C10_Witness ==
    /\ obs_pc = "v_write"
    /\ ~stat.ok
    /\ WarningPrinted
    /\ PrintedDistinguished \/ PrintedNormal

\* the event is a modified event on a path with .eds, or a created event on
\* a path with .xdrx
Classified(ev) ==
    \/ ev.event_type = "modified" /\ Contains(EDS, ev.src_path)
    \/ ev.event_type = "created" /\ Contains(XDRX, ev.src_path)

\* the handler is past its first test
Candidate ==
    obs_pc \in {"is_large_enough", "if_large_enough", "v_lock", "v_notif", "v_write",
                "q_lock", "q_notif", "q_write"}

\* C11: classifier.  The handler goes past its first test only with a modified
\* event on a path containing .eds or a created event on a path containing
\* .xdrx; with any other event it returns at that test having printed nothing,
\* the ledger and both counters as they were; and whenever the observer thread
\* changes the ledger or a counter, or prints, it is handling such an event.
C11_Classifier ==
    /\ [](Candidate => Classified(event))
    /\ [](obs_pc \in {"v_lock", "v_notif", "v_write", "is_large_enough", "if_large_enough"}
            => event.event_type = "modified")
    /\ [](obs_pc \in {"q_lock", "q_notif", "q_write"} => event.event_type = "created")
    /\ [][(obs_pc \in {"on_modified", "on_created"} /\ ~Classified(event)
           /\ obs_pc' # obs_pc)
          => /\ obs_pc' = "idle"
             /\ obs_out = <<>>
             /\ UNCHANGED <<recent_events, q_cnt, v_cnt>>]_vars
    /\ [][(obs_pc = "idle" /\ inp_pc' = inp_pc) =>
            obs_out' = <<>> /\ UNCHANGED <<recent_events, q_cnt, v_cnt>>]_vars
    /\ [][(recent_events' # recent_events \/ Len(obs_out') > Len(obs_out))
          => Classified(event)]_vars

\* C11 witness: a modified event on an .xdrx file is at the handler's test
C11_Witness ==
    /\ obs_pc = "on_modified"
    /\ Contains(XDRX, event.src_path)
    /\ ~Contains(EDS, event.src_path)
    /\ event.src_path \notin Range(recent_events)

\* C12 as stated: counter floor.  Both counters are >= 0 in every reachable
\* state; no render takes a counter at 0 below 0.
C12_CounterFloor == q_cnt >= 0 /\ v_cnt >= 0

\* C12 as amended: every render lowers the counter it read by exactly one,
\* whatever its value, so a counter at 0 becomes -1: after a command left a
\* counter at s and k renders of that source have assigned their result, the
\* counter is s - k.
C12_Decrement ==
    \A s \in Sources :
        Counter(s) = run[s].start - run[s].len + (IF Writing(s) THEN 1 ELSE 0)

\* C12 witness: a created event on a path with the login name was rendered
\* distinguished at counter 0 and left the counter at -1
C12_Witness ==
    /\ obs_pc = "idle"
    /\ run.q.start = 0
    /\ run.q.len = 1
    /\ run.q.normal = 0
    /\ q_cnt = -1

\* the directory names tried for month m, in the order abbreviated, full,
\* and for September the irregular form
Variants(m) ==
    <<build_path(Abbr[MonthOf(m)], YearOf(m)), build_path(Full[MonthOf(m)], YearOf(m))>>
    \o (IF MonthOf(m) = 9 THEN <<build_path("Sept", YearOf(m))>> ELSE <<>>)

\* p is the first of the variants of month m that exists in d
FirstExisting(p, m, d) ==
    \E i \in DOMAIN Variants(m) :
        /\ Variants(m)[i] = p
        /\ p \in d
        /\ \A j \in 1..(i - 1) : Variants(m)[j] \notin d

NoneExists(m, d) == \A i \in DOMAIN Variants(m) : Variants(m)[i] \notin d

\* C13: month-directory resolution.  Resolving the current month returns the
\* first existing variant and creates nothing, or, none existing, creates the
\* abbreviated-name directory and returns it, and never fails; resolving the
\* previous month returns the first existing variant, or, none existing, fails
\* with its message; it never creates a directory.
C13_Resolution ==
    /\ [][(main_pc = "start" /\ main_pc' # main_pc) =>
            /\ main_pc' = "viia7last"
            /\ IF NoneExists(today, dirs)
               THEN viia7' = Variants(today)[1] /\ dirs' = dirs \cup {viia7'}
               ELSE FirstExisting(viia7', today, dirs) /\ dirs' = dirs]_vars
    /\ [][(main_pc = "viia7last" /\ main_pc' # main_pc) =>
            /\ dirs' = dirs
            /\ IF NoneExists(today - 1, dirs)
               THEN /\ main_pc' = "failed"
                    /\ main_out' = Append(main_out, cant_find)
                    /\ viia7last' = viia7last
               ELSE /\ main_pc' = "observe"
                    /\ FirstExisting(viia7last', today - 1, dirs)
                    /\ main_out' = main_out]_vars
    /\ [](main_pc = "failed" => (watches = {} /\ observer = "new" /\ inp_pc = "unstarted"))

\* C13 witness: started in October with neither "Sep" nor "September": this
\* month's directory has its short name and last month's its irregular name
C13_Witness ==
    /\ main_pc = "observe"
    /\ today = 10
    /\ viia7 = build_path("Oct", 0)
    /\ build_path("October", 0) \notin dirs
    /\ viia7last = build_path("Sept", 0)

RotationLoop == main_pc \in {"loop", "unschedule", "schedule"}

\* C14: graceful shutdown.  Once the interrupt is caught the observer is
\* stopped; the farewell is printed only after get_input has returned; the
\* main thread ends after both other threads; and if get_input eventually
\* returns, an interrupted process ends.  The end of input alone changes
\* nothing but the input thread: the observer stays started and both the
\* handler and the rotation loop can go on.
C14_GracefulShutdown ==
    /\ [](main_pc \in {"join", "bye", "observer_join", "input_join", "exit"}
            => observer = "stopped")
    /\ []((\E i \in DOMAIN main_out : main_out[i] = bye) => inp_pc = "done")
    /\ [](main_pc = "exit" =>
            /\ inp_pc = "done"
            /\ obs_pc = "idle"
            /\ main_out[Len(main_out)] = bye)
    /\ [][(inp_pc # "done" /\ inp_pc' = "done") =>
            UNCHANGED <<main_pc, observer, obs_pc, watches, q_cnt, v_cnt>>]_vars
    /\ []((inp_pc = "done" /\ RotationLoop) =>
            /\ observer = "started"
            /\ obs_pc # "idle" => ENABLED qiaxcel_handler
            /\ current_month_year # today => ENABLED rotation)
    /\ (<>[](inp_pc = "done")) => [](main_pc = "stop" => <>(main_pc = "exit"))

\* C14 witness: the process has ended after a render and a command
C14_Witness ==
    /\ main_pc = "exit"
    /\ main_out[Len(main_out)] = bye
    /\ inp_pc = "done"
    /\ observer = "stopped"
    /\ recorded # <<>>
    /\ cmds > 0

\* the watches on month directories
MonthWatches == watches \ {qiaxcel}

\* C15 as stated: exactly two month watches at any time.  In every reachable
\* state, the states inside a rotation step included, there are exactly two
\* watches on month directories, one on the directory of the month the loop
\* has seen and one on the directory of the month before.
C15_TwoWatches ==
    /\ Cardinality(MonthWatches) = 2
    /\ \E w \in MonthWatches : current_month_year \in MonthsNamed(w)
    /\ \E w \in MonthWatches : (current_month_year - 1) \in MonthsNamed(w)

\* C15 as amended: two month watches outside a rotation step, on the
\* directories of the month the loop saw last and of the month before; inside
\* a rotation step, still the two old watches before line 209, and after it
\* and before line 211 exactly one, on the directory of the month before the
\* new one; never none and never more than two.
C15_WatchesByStep ==
    /\ Cardinality(MonthWatches) \in {1, 2}
    /\ main_pc = "loop" =>
        /\ MonthWatches = {viia7watch_last, viia7watch_curr}
        /\ Cardinality(MonthWatches) = 2
        /\ current_month_year \in MonthsNamed(viia7watch_curr)
        /\ (current_month_year - 1) \in MonthsNamed(viia7watch_last)
    /\ main_pc = "unschedule" =>
        /\ MonthWatches = {viia7watch_last, viia7watch_curr}
        /\ Cardinality(MonthWatches) = 2
        /\ (current_month_year - 1) \in MonthsNamed(viia7watch_curr)
        /\ (current_month_year - 2) \in MonthsNamed(viia7watch_last)
    /\ main_pc = "schedule" =>
        /\ MonthWatches = {viia7watch_curr}
        /\ (current_month_year - 1) \in MonthsNamed(viia7watch_curr)
        /\ current_month_year \in MonthsNamed(viia7)

\* C15 witness: inside the second rotation step, last month's watch is gone
\* and the new month's watch is not yet there
C15_Witness ==
    /\ main_pc = "schedule"
    /\ ticks = 2
    /\ Cardinality(MonthWatches) = 1
    /\ viia7 \notin watches

\* the handler is at notif's first line, the append to the ledger
Appending == obs_pc \in {"v_notif", "q_notif"}

\* C16 as stated: one mutex for the ledger.  There is a lock that the
\* observer thread held at every append to the ledger made so far.
C16_SingleMutex == ledger_locks # {}

\* C16 as amended: no lock is common to the ledger's appends.  An append for
\* a Viia7 event is made holding v_lock and not q_lock, an append for a
\* Qiaxcel event holding q_lock and not v_lock, and the ledger changes in no
\* other step; the appends are serialized by the one observer thread, which
\* handles one event at a time and holds no lock between two events.
C16_OwnLockOnly ==
    /\ [](obs_pc = "v_notif" => HeldBy("observer") = {"v_lock"})
    /\ [](obs_pc = "q_notif" => HeldBy("observer") = {"q_lock"})
    /\ [](obs_pc = "v_notif" => event.event_type = "modified")
    /\ [](obs_pc = "q_notif" => event.event_type = "created")
    /\ [](obs_pc \in {"idle", "on_modified", "on_created"} => HeldBy("observer") = {})
    /\ [][recent_events' # recent_events =>
            /\ Appending
            /\ recent_events' = deque_append(recent_events, event.src_path)
            /\ obs_pc' \in {"v_write", "q_write"}]_vars

\* C16 witness: a Viia7 path was appended earlier and a Qiaxcel path just
\* now, the Viia7's lock being with get_input: no lock was held at both
C16_Witness ==
    /\ obs_pc = "q_write"
    /\ q_lock = "observer"
    /\ v_lock = "input"
    /\ ledger_locks = {}

\* source A is the instrument of the modified events, commanded by v; source
\* B the instrument of the created events, commanded by q
SourceA == get_event_info([event_type |-> "modified", src_path |-> <<>>]).machine
SourceB == get_event_info([event_type |-> "created", src_path |-> <<>>]).machine

Unscheduled == {watch_log[i].path : i \in {j \in DOMAIN watch_log : watch_log[j].op = "unschedule"}}

\* C17 as stated: once a rotation step has removed a watch, source A still
\* has a single watch, every watch a rotation removed was one of source B's,
\* and the two rotated watches are source B's.
C17_SourceAUnrotated ==
    Unscheduled # {} =>
        /\ Cardinality({w \in watches : watch_machine(w) = SourceA}) = 1
        /\ \A w \in Unscheduled : watch_machine(w) = SourceB
        /\ watch_machine(viia7watch_last) = SourceB
        /\ watch_machine(viia7watch_curr) = SourceB

\* C17 as amended: the sources are the other way round.  Source B (created
\* events, letter q) has a single watch, scheduled once and never removed or
\* replaced; every watch a rotation removes and both rotated watches are
\* source A's (modified events, letter v).
C17_SourceBUnrotated ==
    /\ {w \in watches : watch_machine(w) = SourceB} = {qiaxcel}
    /\ Count("schedule", qiaxcel) = 1
    /\ \A w \in Unscheduled : watch_machine(w) = SourceA
    /\ \A w \in MonthWatches : watch_machine(w) = SourceA
    /\ watch_machine(viia7watch_last) = SourceA
    /\ watch_machine(viia7watch_curr) = SourceA

\* C17 witness: two rotation steps have each removed a Viia7 watch and the
\* Qiaxcel's watch is the one it was
C17_Witness ==
    /\ main_pc = "loop"
    /\ Cardinality(Unscheduled) = 2
    /\ qiaxcel \in watches
    /\ watch_log[1] = [op |-> "schedule", path |-> qiaxcel]

\* the handler is in on_modified / in on_created, before or after the step
InModified ==
    \/ obs_pc \in {"on_modified", "is_large_enough", "if_large_enough", "v_lock",
                   "v_notif", "v_write"}
    \/ obs_pc' = "on_modified"
InCreated ==
    \/ obs_pc \in {"on_created", "q_lock", "q_notif", "q_write"}
    \/ obs_pc' = "on_created"

\* C18: per-source frame.  A step of on_modified leaves the Qiaxcel's counter
\* as it is and a step of on_created the Viia7's; reading a line changes no
\* counter; handling a line with q and without v leaves the Viia7's counter
\* as it is, a line with v and without q the Qiaxcel's, and a line with
\* neither letter both; no step of get_input changes the ledger; a rotation
\* step leaves both counters and the ledger as they are.
C18_PerSourceFrame ==
    /\ [][(obs_pc' # obs_pc /\ InModified) => q_cnt' = q_cnt]_vars
    /\ [][(obs_pc' # obs_pc /\ InCreated) => v_cnt' = v_cnt]_vars
    /\ [][(inp_pc' # inp_pc) => recent_events' = recent_events]_vars
    /\ [][(inp_pc' # inp_pc /\ inp_pc = "input") => UNCHANGED <<q_cnt, v_cnt>>]_vars
    /\ [][(inp_pc' # inp_pc /\ inp_pc # "input" /\ ~HasLetter("v", "V"))
            => v_cnt' = v_cnt]_vars
    /\ [][(inp_pc' # inp_pc /\ inp_pc # "input" /\ ~HasLetter("q", "Q"))
            => q_cnt' = q_cnt]_vars
    /\ [][(main_pc' # main_pc) => UNCHANGED <<q_cnt, v_cnt, recent_events>>]_vars

\* C18 witness: the line 7 has passed both tests with its digit read, in the
\* middle of a rotation step and of a Viia7 render
C18_Witness ==
    /\ inp = <<"7">>
    /\ count = 7
    /\ inp_pc = "v_if"
    /\ main_pc = "schedule"
    /\ obs_pc = "v_write"
    /\ q_cnt = 0
    /\ v_cnt = 0

\* os.stat gave a size that is not above the threshold
TooSmall == stat.ok /\ stat.st_size <= 1300000

\* C19: a rejection leaves no trace.  When the size check refuses a modified
\* event the handler returns having printed nothing, with the ledger, the
\* history of recorded paths and both counters as they were; the refused path
\* is not in the ledger until a later event records it; a later modified
\* event on that path passes the first test again, and when the file is then
\* above the threshold it is recorded and notified.
C19_RejectionNoTrace ==
    /\ [][(obs_pc = "if_large_enough" /\ TooSmall /\ obs_pc' # obs_pc) =>
            /\ obs_pc' = "idle"
            /\ obs_out = <<>>
            /\ UNCHANGED <<recent_events, recorded, run, q_cnt, v_cnt>>]_vars
    /\ [](rejected # <<>> => rejected \notin Range(recent_events))
    /\ [][(obs_pc = "on_modified" /\ event.src_path = rejected /\ obs_pc' # obs_pc) =>
            obs_pc' = "is_large_enough"]_vars
    /\ [][(/\ obs_pc = "if_large_enough"
           /\ event.src_path = rejected
           /\ stat.ok
           /\ stat.st_size > 1300000
           /\ obs_pc' # obs_pc) => obs_pc' = "v_lock"]_vars
    /\ [][(obs_pc = "v_notif" /\ event.src_path = rejected /\ obs_pc' # obs_pc) =>
            /\ obs_pc' = "v_write"
            /\ event.src_path \in Range(recent_events')
            /\ \E i \in DOMAIN obs_out' :
                    IsDistinguishedLine(obs_out'[i]) \/ IsNormalLine(obs_out'[i])]_vars

\* C19 witness: a file refused earlier has grown above the threshold and its
\* event is about to be recorded and notified
C19_Witness ==
    /\ obs_pc = "v_notif"
    /\ event.src_path = rejected
    /\ stat.ok
    /\ stat.st_size > 1300000

Threads == {"observer", "input"}

\* the thread is at a `with` whose lock another thread holds
ObserverWaits ==
    \/ obs_pc = "v_lock" /\ v_lock # "free"
    \/ obs_pc = "q_lock" /\ q_lock # "free"
InputWaits ==
    \/ inp_pc = "q_if" /\ HasLetter("q", "Q") /\ q_lock # "free"
    \/ inp_pc = "v_if" /\ HasLetter("v", "V") /\ v_lock # "free"

\* C20: lock discipline.  No thread holds both locks; a lock is held exactly
\* while its holder is inside the with block, where the holder can always
\* step, and the block is left, the lock released, after at most two steps of
\* the handler and three of get_input; the two threads never wait for each
\* other; and a command on one source finds that source's lock free while the
\* handler renders the other source.
C20_LockDiscipline ==
    /\ [](\A t \in Threads : Cardinality(HeldBy(t)) <= 1)
    /\ [](q_lock = "observer" <=> obs_pc \in {"q_notif", "q_write"})
    /\ [](v_lock = "observer" <=> obs_pc \in {"v_notif", "v_write"})
    /\ [](q_lock = "input" <=> inp_pc \in {"q_set", "q_print", "q_release"})
    /\ [](v_lock = "input" <=> inp_pc \in {"v_set", "v_print", "v_release"})
    /\ [](HeldBy("observer") # {} => ENABLED Handler(StatResults))
    /\ [](HeldBy("input") # {} => ENABLED get_input)
    /\ [][(obs_pc' # obs_pc) =>
            /\ obs_pc = "q_notif" => obs_pc' = "q_write"
            /\ obs_pc = "v_notif" => obs_pc' = "v_write"
            /\ obs_pc = "q_write" => q_lock' = "free"
            /\ obs_pc = "v_write" => v_lock' = "free"]_vars
    /\ [][(inp_pc' # inp_pc) =>
            /\ inp_pc = "q_set" => inp_pc' = "q_print"
            /\ inp_pc = "q_print" => inp_pc' = "q_release"
            /\ inp_pc = "q_release" => q_lock' = "free"
            /\ inp_pc = "v_set" => inp_pc' = "v_print"
            /\ inp_pc = "v_print" => inp_pc' = "v_release"
            /\ inp_pc = "v_release" => v_lock' = "free"]_vars
    /\ [](~(ObserverWaits /\ InputWaits))
    /\ [](ObserverWaits => ENABLED get_input)
    /\ [](InputWaits => ENABLED Handler(StatResults))
    /\ []((inp_pc = "q_if" /\ obs_pc \in {"v_lock", "v_notif", "v_write"})
            => q_lock = "free" /\ ENABLED input_q_if)
    /\ []((inp_pc = "v_if" /\ obs_pc \in {"q_lock", "q_notif", "q_write"})
            => v_lock = "free" /\ ENABLED input_v_if)

\* C20 witness: the line qv3 is at its v test while a Qiaxcel render holds
\* q_lock, and takes v_lock without waiting
C20_Witness ==
    /\ inp = <<"q", "v", "3">>
    /\ inp_pc = "v_if"
    /\ obs_pc = "q_write"
    /\ q_lock = "observer"
    /\ v_lock = "free"

====
